---- MODULE Spec2Model ----
(***************************************************************************)
(* The /books request pipeline of the library-books API:                   *)
(*   router.use(isAuthenticated) -> router.use(checkConnection) -> route   *)
(* Each request slot walks the pipeline; the runtime interleaves slots at  *)
(* the await points (db.checkConnection and every Book model call).        *)
(* A Book carries _id, title and authorId; publishedDate and pages are     *)
(* never inspected by the router and are left out of the record.           *)
(***************************************************************************)
EXTENDS Integers, Sequences, FiniteSets, TLC

\* ---- bounds ----
\* identities the store can issue
MaxId == 2

\* two requests in flight at once: the least at which one handler's awaits
\* interleave with another handler's calls
Reqs == {1, 2}
\* a path parameter that is no well-formed identifier of the backing store
BadId == 0
\* placeholder of req.params.id on the routes without :id
NoId == -1
IssuableIds == 1..MaxId
ParamIds == IssuableIds \cup {BadId}

\* a field the JSON body does not carry
Absent == "undefined"
Titles == {Absent, "", "Dune"}
AuthorIds == {Absent, "a1"}
Bodies == [title : Titles, authorId : AuthorIds]
NoBody == [title |-> Absent, authorId |-> Absent]

Ops == {"list", "get", "create", "update", "delete"}
\* messages of the errors the store driver raises
Errs == {"ECONNRESET"}
Outcomes == {"ok"} \cup Errs
MalformedIdError == "invalid ObjectId"
ValidationError == "title is required"

NoCount == -1
NoResp == [status |-> 0, success |-> FALSE, message |-> "", data |-> <<>>,
           count |-> NoCount, error |-> "", details |-> ""]

VARIABLES store, nextId, req, created201, deleted200, lostInsert
vars == <<store, nextId, req, created201, deleted200, lostInsert>>

Idle == [pc |-> "idle", op |-> "list", id |-> NoId, body |-> NoBody, auth |-> FALSE,
         calls |-> <<>>, nresp |-> 0, resp |-> NoResp,
         failedAt |-> 0, err |-> "", envFail |-> FALSE,
         insertedId |-> NoId, issuedBefore |-> {}, raced |-> FALSE,
         absentAtFind |-> FALSE, quiet |-> FALSE, n201 |-> 0, m200 |-> 0, live |-> {},
         wrote |-> FALSE]

\* ---------------------------------------------------------------------
\* models/Book and data/database (collaborators of the router)
\* ---------------------------------------------------------------------

\* the record with identity id, as a sequence of at most one element
Lookup(books, id) == SelectSeq(books, LAMBDA b : b._id = id)
HasId(books, id) == \E i \in 1..Len(books) : books[i]._id = id
IdsOf(books) == {books[i]._id : i \in 1..Len(books)}

\* Book.findAll(): every stored record, in insertion order
findAll(books) == books

\* Book.findById(id): the matching record (<<b>>), or null (<<>>);
\* throws when the identifier is malformed for the backing store
findByIdThrows(id) == id = BadId
findById(books, id) == Lookup(books, id)

\* Book.create(fields): throws a validation error without a title ...
createThrows(fields) == fields.title \in {Absent, ""}
\* ... and otherwise persists the fields verbatim under a fresh identity
create(books, fields, newId) ==
    Append(books, [_id |-> newId, title |-> fields.title, authorId |-> fields.authorId])

\* Book.update(id, fields): replaces the given fields of the matching record
merge(b, fields) ==
    [b EXCEPT !.title = IF fields.title = Absent THEN @ ELSE fields.title,
              !.authorId = IF fields.authorId = Absent THEN @ ELSE fields.authorId]
update(books, id, fields) ==
    [i \in 1..Len(books) |-> IF books[i]._id = id THEN merge(books[i], fields) ELSE books[i]]
matchedCount(books, id) == Len(Lookup(books, id))

\* Book.delete(id): removes the matching record
delete(books, id) == SelectSeq(books, LAMBDA b : b._id # id)
deletedCount(books, id) == Len(Lookup(books, id))

\* middleware/authenticate: a session principal is present
isAuthenticated(q) == q.auth

\* ---------------------------------------------------------------------
\* routes/books: responses
\* ---------------------------------------------------------------------

\* res.status(..).json(..): one more response on the wire, the request ends
respond(q, r) == [q EXCEPT !.pc = "done", !.nresp = @ + 1, !.resp = r]
\* a collaborator is invoked
call(q, name) == [q EXCEPT !.calls = Append(@, name)]
\* the awaited call rejected with error e; env is TRUE for a failure of the store itself
thrown(q, e, env) == [q EXCEPT !.failedAt = Len(q.calls), !.err = e, !.envFail = @ \/ env]

unauthorizedResponse == [NoResp EXCEPT !.status = 401, !.message = "Unauthorized"]

\* mutant: the error's message is redacted
errorResponseRedacted(e) == [NoResp EXCEPT !.status = 500, !.message = "Internal Server Error"]

\* every error caught at a handler boundary: 500 with the raw message
errorResponse(e) == [NoResp EXCEPT !.status = 500, !.message = e]
listErrorResponse(e) == [errorResponse(e) EXCEPT !.details = "Failed to fetch books"]
connectionFailedResponse(e) ==
    [NoResp EXCEPT !.status = 500, !.message = "Database connection failed", !.error = e]
notFoundResponse == [NoResp EXCEPT !.status = 404, !.message = "Book not found"]
titleRequiredResponse == [NoResp EXCEPT !.status = 400, !.message = "Book title is required"]
\* mutant: count is taken off by one
listResponseCountOff(books) ==
    [NoResp EXCEPT !.status = 200, !.success = TRUE, !.count = Len(books) - 1, !.data = books]
listResponse(books) ==
    [NoResp EXCEPT !.status = 200, !.success = TRUE, !.count = Len(books), !.data = books]
bookResponse(book) == [NoResp EXCEPT !.status = 200, !.success = TRUE, !.data = book]
\* mutant: the 201 echoes the request body instead of the record read back
createdResponseEchoesBody(body, newBook) ==
    [NoResp EXCEPT !.status = 201, !.success = TRUE,
                   !.data = <<[_id |-> NoId, title |-> body.title, authorId |-> body.authorId]>>,
                   !.message = "Book created successfully"]
createdResponse(body, newBook) ==
    [NoResp EXCEPT !.status = 201, !.success = TRUE, !.data = newBook,
                   !.message = "Book created successfully"]
\* mutant: the 200 echoes the request body instead of the record read back
updatedResponseEchoesBody(body, updatedBook) ==
    [NoResp EXCEPT !.status = 200, !.success = TRUE,
                   !.data = <<[_id |-> NoId, title |-> body.title, authorId |-> body.authorId]>>,
                   !.message = "Book updated successfully"]
updatedResponse(body, updatedBook) ==
    [NoResp EXCEPT !.status = 200, !.success = TRUE, !.data = updatedBook,
                   !.message = "Book updated successfully"]
deletedResponse ==
    [NoResp EXCEPT !.status = 200, !.success = TRUE, !.message = "Book deleted successfully"]

\* ---------------------------------------------------------------------
\* routes/books: middleware and handlers.  A handler step is one awaited
\* call together with the code that runs when it settles; it yields the
\* request's next state and the store the call leaves behind.
\* ---------------------------------------------------------------------
Step(q, s, n) == [q |-> q, store |-> s, nextId |-> n]

\* mutant: the guard is not applied to the router
guardNotApplied(q) == [q EXCEPT !.pc = "check"]

\* router.use(isAuthenticated)
useIsAuthenticated(q) ==
    IF isAuthenticated(q) THEN [q EXCEPT !.pc = "check"]
    ELSE respond(q, unauthorizedResponse)

\* mutant: next() is called whether or not the check succeeded
checkConnectionAlwaysNext(q, o) ==
    LET q1 == call(q, "checkConnection") IN
    IF o = "ok" THEN [q1 EXCEPT !.pc = "route"]
    ELSE [thrown(q1, o, TRUE) EXCEPT !.pc = "route"]

\* router.use(async (req, res, next) => { await db.checkConnection(); next() ... })
useCheckConnection(q, o) ==
    LET q1 == call(q, "checkConnection") IN
    IF o = "ok" THEN [q1 EXCEPT !.pc = "route"]
    ELSE respond(thrown(q1, o, TRUE), connectionFailedResponse(o))

\* router.get('/')
getAllHandler(q, books, n, o) ==
    LET q1 == call(q, "findAll") IN
    IF o = "ok" THEN Step(respond(q1, listResponse(findAll(books))), books, n)
    ELSE Step(respond(thrown(q1, o, TRUE), listErrorResponse(o)), books, n)

\* router.get('/:id')
getOneHandler(q, books, n, o) ==
    LET q1 == call(q, "findById") IN
    IF findByIdThrows(q.id)
    THEN Step(respond(thrown(q1, MalformedIdError, FALSE), errorResponse(MalformedIdError)), books, n)
    ELSE IF o # "ok"
    THEN Step(respond(thrown(q1, o, TRUE), errorResponse(o)), books, n)
    ELSE LET book == findById(books, q.id) IN
         IF book = <<>> THEN Step(respond(q1, notFoundResponse), books, n)
         ELSE Step(respond(q1, bookResponse(book)), books, n)

\* mutant: only an undefined title is refused, an empty one passes
titleUndefinedOnly(body) == body.title = Absent

\* if (!req.body.title)
titleMissing(body) == body.title \in {Absent, ""}

\* router.post('/'), up to the await of Book.create
postCreateHandler(q, books, n, o) ==
    IF titleMissing(q.body) THEN Step(respond(q, titleRequiredResponse), books, n)
    ELSE LET q1 == call(q, "create") IN
         IF createThrows(q.body)
         THEN Step(respond(thrown(q1, ValidationError, FALSE), errorResponse(ValidationError)), books, n)
         ELSE IF o # "ok"
         THEN Step(respond(thrown(q1, o, TRUE), errorResponse(o)), books, n)
         ELSE Step([q1 EXCEPT !.pc = "find", !.insertedId = n, !.issuedBefore = 1..(n - 1)],
                   create(books, q.body, n), n + 1)

\* router.post('/'), from the await of Book.findById(result.insertedId)
postFindHandler(q, books, n, o) ==
    LET q1 == call(q, "findById") IN
    IF findByIdThrows(q.insertedId)
    THEN Step(respond(thrown(q1, MalformedIdError, FALSE), errorResponse(MalformedIdError)), books, n)
    ELSE IF o # "ok"
    THEN Step(respond(thrown(q1, o, TRUE), errorResponse(o)), books, n)
    ELSE Step(respond(q1, createdResponse(q.body, findById(books, q.insertedId))), books, n)

\* mutant: the unmatched case is never taken
notMatchedNever(count) == count < 0

\* if (!result.matchedCount)
notMatched(count) == count = 0

\* router.put('/:id'), up to the await of Book.update
putUpdateHandler(q, books, n, o) ==
    LET q1 == call(q, "update") IN
    IF o # "ok" THEN Step(respond(thrown(q1, o, TRUE), errorResponse(o)), books, n)
    ELSE IF notMatched(matchedCount(books, q.id))
    THEN Step(respond(q1, notFoundResponse), update(books, q.id, q.body), n)
    ELSE Step([q1 EXCEPT !.pc = "find"], update(books, q.id, q.body), n)

\* router.put('/:id'), from the await of Book.findById(req.params.id)
putFindHandler(q, books, n, o) ==
    LET q1 == call(q, "findById") IN
    IF findByIdThrows(q.id)
    THEN Step(respond(thrown(q1, MalformedIdError, FALSE), errorResponse(MalformedIdError)), books, n)
    ELSE IF o # "ok"
    THEN Step(respond(thrown(q1, o, TRUE), errorResponse(o)), books, n)
    ELSE Step(respond(q1, updatedResponse(q.body, findById(books, q.id))), books, n)

\* router.delete('/:id')
deleteHandler(q, books, n, o) ==
    LET q1 == call(q, "delete") IN
    IF o # "ok" THEN Step(respond(thrown(q1, o, TRUE), errorResponse(o)), books, n)
    ELSE IF deletedCount(books, q.id) = 0
    THEN Step(respond(q1, notFoundResponse), delete(books, q.id), n)
    ELSE Step(respond(q1, deletedResponse), delete(books, q.id), n)

\* ---------------------------------------------------------------------
\* the server: requests arrive, walk the pipeline and are answered
\* ---------------------------------------------------------------------
Init ==
    /\ store = <<>>
    /\ nextId = 1
    /\ req = [r \in Reqs |-> Idle]
    /\ created201 = {}
    /\ deleted200 = {}
    /\ lostInsert = FALSE

\* the identity the second call of a two-call handler reads back
TargetId(q) == IF q.op = "create" THEN q.insertedId ELSE q.id

\* An answered request holds nothing another request reads: its response leaves
\* and its slot is released before the server takes any other step.
NoneDone == \A x \in Reqs : req[x].pc # "done"

\* A handler step of request r takes effect: the store and the request move on.
\* History kept for the properties: wrote (this request changed the store), raced
\* (another request changed the record this one is about to read back), the
\* identities answered 200 by DELETE, and lostInsert (some POST stored a record and
\* then answered 500) with, as long as that has not happened, the identities
\* answered 201 by POST.
Commit(r, st) ==
    LET touched == {i \in IssuableIds : Lookup(store, i) # Lookup(st.store, i)}
        q2 == [st.q EXCEPT !.wrote = @ \/ (st.store # store)]
    IN  /\ NoneDone
        /\ st.nextId <= MaxId + 1
        /\ req' = [x \in Reqs |->
                     IF x = r THEN q2
                     ELSE IF req[x].pc = "find" /\ TargetId(req[x]) \in touched
                          THEN [req[x] EXCEPT !.raced = TRUE]
                          ELSE req[x]]
        /\ store' = st.store
        /\ nextId' = st.nextId
        /\ lostInsert' = (lostInsert \/ (q2.op = "create" /\ q2.pc = "done"
                                          /\ q2.insertedId # NoId /\ q2.resp.status # 201))
        /\ created201' = IF lostInsert' THEN {}
                         ELSE IF q2.op = "create" /\ q2.pc = "done" /\ q2.resp.status = 201
                         THEN created201 \cup {q2.insertedId} ELSE created201
        /\ deleted200' = IF q2.op = "delete" /\ q2.pc = "done" /\ q2.resp.status = 200
                         THEN deleted200 \cup {q2.id} ELSE deleted200

\* A request arrives and meets the authentication guard.  The guard reads the
\* session only; req.params.id and req.body are first read by the route handler
\* and are drawn there.
Receive(r) ==
    /\ NoneDone
    /\ req[r].pc = "idle"
    /\ \E op \in Ops, auth \in BOOLEAN :
          req' = [req EXCEPT ![r] =
                     useIsAuthenticated([Idle EXCEPT !.pc = "guard", !.op = op, !.auth = auth])]
    /\ UNCHANGED <<store, nextId, created201, deleted200, lostInsert>>

\* db.checkConnection() settles
CheckConnection(r) ==
    /\ NoneDone
    /\ req[r].pc = "check"
    /\ \E o \in Outcomes : req' = [req EXCEPT ![r] = useCheckConnection(req[r], o)]
    /\ UNCHANGED <<store, nextId, created201, deleted200, lostInsert>>

GetAll(r) ==
    /\ req[r].pc = "route" /\ req[r].op = "list"
    /\ \E o \in Outcomes :
          Commit(r, getAllHandler([req[r] EXCEPT !.quiet = (~lostInsert /\ created201 = 1..(nextId - 1)),
                                                 !.n201 = Cardinality(created201),
                                                 !.m200 = Cardinality(deleted200),
                                                 !.live = created201 \ deleted200],
                                  store, nextId, o))

GetOne(r) ==
    /\ req[r].pc = "route" /\ req[r].op = "get"
    /\ \E id \in ParamIds, o \in Outcomes :
          Commit(r, getOneHandler([req[r] EXCEPT !.id = id, !.absentAtFind = ~HasId(store, id)],
                                  store, nextId, o))

PostCreate(r) ==
    /\ req[r].pc = "route" /\ req[r].op = "create"
    /\ \E body \in Bodies, o \in Outcomes :
          Commit(r, postCreateHandler([req[r] EXCEPT !.body = body], store, nextId, o))

PostFind(r) ==
    /\ req[r].pc = "find" /\ req[r].op = "create"
    /\ \E o \in Outcomes : Commit(r, postFindHandler(req[r], store, nextId, o))

PutUpdate(r) ==
    /\ req[r].pc = "route" /\ req[r].op = "update"
    /\ \E id \in ParamIds, body \in Bodies, o \in Outcomes :
          Commit(r, putUpdateHandler([req[r] EXCEPT !.id = id, !.body = body,
                                                    !.absentAtFind = ~HasId(store, id)],
                                     store, nextId, o))

PutFind(r) ==
    /\ req[r].pc = "find" /\ req[r].op = "update"
    /\ \E o \in Outcomes : Commit(r, putFindHandler(req[r], store, nextId, o))

Delete(r) ==
    /\ req[r].pc = "route" /\ req[r].op = "delete"
    /\ \E id \in ParamIds, o \in Outcomes :
          Commit(r, deleteHandler([req[r] EXCEPT !.id = id], store, nextId, o))

\* the answered request leaves; its slot serves the next one
Recycle(r) ==
    /\ req[r].pc = "done"
    /\ req' = [req EXCEPT ![r] = Idle]
    /\ UNCHANGED <<store, nextId, created201, deleted200, lostInsert>>

Next ==
    \E r \in Reqs :
        \/ Receive(r)
        \/ CheckConnection(r)
        \/ GetAll(r)
        \/ GetOne(r)
        \/ PostCreate(r)
        \/ PostFind(r)
        \/ PutUpdate(r)
        \/ PutFind(r)
        \/ Delete(r)
        \/ Recycle(r)

Spec == Init /\ [][Next]_vars

\* ---------------------------------------------------------------------
\* properties
\* ---------------------------------------------------------------------
BookCalls == {"findAll", "findById", "create", "update", "delete"}
Invoked(q, name) == \E i \in 1..Len(q.calls) : q.calls[i] = name
InvokedBook(q) == \E i \in 1..Len(q.calls) : q.calls[i] \in BookCalls
\* db.checkConnection ran first for this request and resolved
CheckPassed(q) == Len(q.calls) >= 1 /\ q.calls[1] = "checkConnection" /\ q.failedAt # 1
Arrived(q) == q.pc # "idle"
Answered(q) == q.pc = "done"

\* C1: a request without a session principal, whatever its operation, is answered
\* by the guard alone: it is rejected at once, neither db.checkConnection nor any
\* Book operation is invoked for it, and it leaves the store as it was.
C1_UnauthenticatedNeverReachesStore ==
    \A r \in Reqs :
        (Arrived(req[r]) /\ ~req[r].auth) =>
            /\ Answered(req[r])
            /\ req[r].nresp = 1
            /\ req[r].resp = unauthorizedResponse
            /\ req[r].calls = <<>>
            /\ ~req[r].wrote
C1_Witness ==
    \E r \in Reqs : /\ Answered(req[r]) /\ ~req[r].auth /\ req[r].op = "delete"
                    /\ req[r].resp.status = 401 /\ store # <<>>

\* C2: every stored record has a non-empty title and a present authorId.
C2_StoredRecordsValid ==
    \A i \in 1..Len(store) :
        /\ store[i].title \notin {Absent, ""}
        /\ store[i].authorId # Absent

\* C3: an authenticated POST whose body has a missing or empty title never invokes
\* Book.create and leaves the store unchanged; once the connectivity check has
\* passed it is answered 400 {success:false, message:"Book title is required"}.
C3_MissingTitleIs400 ==
    \A r \in Reqs :
        (req[r].op = "create" /\ req[r].auth /\ Arrived(req[r])
            /\ req[r].body.title \in {Absent, ""}) =>
            /\ ~Invoked(req[r], "create")
            /\ ~req[r].wrote
            /\ (Answered(req[r]) /\ CheckPassed(req[r])) =>
                   /\ req[r].resp = titleRequiredResponse
                   /\ req[r].nresp = 1
            /\ req[r].pc # "find"
C3_Witness ==
    \E r \in Reqs : /\ req[r].op = "create" /\ req[r].auth /\ Answered(req[r])
                    /\ req[r].body.title = "" /\ req[r].body.authorId # Absent
                    /\ CheckPassed(req[r]) /\ req[r].resp.status = 400

\* what C4 says of the data of a 201
CreatedDataOk(q) ==
    /\ Len(q.resp.data) = 1
    /\ q.resp.data[1]._id \in IssuableIds
    /\ q.resp.data[1]._id \notin q.issuedBefore
    /\ q.resp.data[1].title = q.body.title
    /\ q.resp.data[1].authorId = q.body.authorId
Created201(q) == q.op = "create" /\ Answered(q) /\ q.resp.status = 201

\* C4 as stated: whenever POST responds 201 its data is a record with a newly
\* assigned identity whose fields equal the submitted ones, whatever other requests
\* ran between Book.create and Book.findById.
C4_Original ==
    \A r \in Reqs : Created201(req[r]) => CreatedDataOk(req[r])
\* C4 amended: the same, provided no delete of and no update to the new identity
\* took effect between the handler's Book.create and its Book.findById.
C4_CreatedRoundTrip ==
    \A r \in Reqs : (Created201(req[r]) /\ ~req[r].raced) => CreatedDataOk(req[r])
C4_Witness ==
    \E r \in Reqs : /\ Created201(req[r]) /\ ~req[r].raced
                    /\ req[r].issuedBefore # {} /\ req[r].body.authorId # Absent

\* C5: an authenticated GET /books/:id, the store reachable, for an identity that
\* has no record (never issued, or deleted) is answered 404 "Book not found".
C5_AbsentIdIs404 ==
    \A r \in Reqs :
        (req[r].op = "get" /\ req[r].auth /\ Answered(req[r])
            /\ ~req[r].envFail /\ req[r].absentAtFind) =>
            req[r].resp = notFoundResponse

\* C6: an authenticated PUT that reached Book.update for an identity with no stored
\* record leaves every stored record as it was and, the call having resolved (zero
\* records matched), is answered 404 "Book not found" without reading anything back.
C6_UnmatchedUpdateIs404 ==
    \A r \in Reqs :
        (req[r].op = "update" /\ Invoked(req[r], "update") /\ req[r].absentAtFind) =>
            /\ ~req[r].wrote
            /\ Answered(req[r])
            /\ req[r].nresp = 1
            /\ req[r].failedAt = 0 => req[r].resp = notFoundResponse
            /\ ~Invoked(req[r], "findById")
C6_Witness ==
    \E r \in Reqs : /\ req[r].op = "update" /\ Answered(req[r]) /\ req[r].absentAtFind
                    /\ req[r].id \in IssuableIds /\ req[r].body.title = "Dune"
                    /\ req[r].resp.status = 404 /\ store # <<>>

UpdatedDataOk(q) ==
    /\ Len(q.resp.data) = 1
    /\ q.resp.data[1]._id = q.id
    /\ q.body.title # Absent => q.resp.data[1].title = q.body.title
    /\ q.body.authorId # Absent => q.resp.data[1].authorId = q.body.authorId
Updated200(q) == q.op = "update" /\ Answered(q) /\ q.resp.status = 200

\* C8 as stated: whenever PUT responds 200 its data is the record with that
\* identity, non-null, carrying the values this request supplied, also when a
\* delete of or another update to the identity ran between update and findById.
C8_Original ==
    \A r \in Reqs : Updated200(req[r]) => UpdatedDataOk(req[r])
\* C8 amended: the same, provided no delete of and no other update to the identity
\* took effect between the handler's Book.update and its Book.findById.
C8_UpdatedRecordReturned ==
    \A r \in Reqs : (Updated200(req[r]) /\ ~req[r].raced) => UpdatedDataOk(req[r])
C8_Witness ==
    \E r \in Reqs : /\ Updated200(req[r]) /\ ~req[r].raced /\ req[r].wrote
                    /\ req[r].body.title = "" /\ req[r].body.authorId = "a1"

\* C9: when a Book model call of a handler fails, that call is the request's last
\* one (no retry, nothing after it) and the request gets exactly one response:
\* 500, success false, message the error's own message.
C9_StorageErrorIs500Once ==
    \A r \in Reqs :
        (req[r].failedAt # 0 /\ req[r].calls[req[r].failedAt] \in BookCalls) =>
            /\ Answered(req[r])
            /\ req[r].nresp = 1
            /\ req[r].resp.status = 500
            /\ ~req[r].resp.success
            /\ req[r].resp.message = req[r].err
            /\ Len(req[r].calls) = req[r].failedAt
C9_Witness ==
    \E r \in Reqs : /\ req[r].op = "create" /\ Answered(req[r]) /\ req[r].failedAt = 3
                    /\ req[r].calls = <<"checkConnection", "create", "findById">>
                    /\ req[r].resp.status = 500 /\ req[r].envFail

\* C10: for an authenticated request db.checkConnection is the first call and is
\* made once; when it fails the request is answered 500 "Database connection
\* failed" and no Book operation is invoked; a Book operation is invoked, and the
\* handler entered, only after checkConnection has succeeded for that request.
C10_CheckBeforeHandler ==
    \A r \in Reqs :
        (Arrived(req[r]) /\ req[r].auth) =>
            /\ \A i \in 1..Len(req[r].calls) : (req[r].calls[i] = "checkConnection") <=> (i = 1)
            /\ (Len(req[r].calls) >= 1 /\ req[r].failedAt = 1) =>
                   /\ Answered(req[r])
                   /\ req[r].nresp = 1
                   /\ req[r].resp = connectionFailedResponse(req[r].err)
                   /\ ~InvokedBook(req[r])
            /\ (InvokedBook(req[r]) \/ req[r].pc \in {"route", "find"}) => CheckPassed(req[r])
            /\ (Answered(req[r]) /\ req[r].resp.status \in {200, 201, 400, 404}) => CheckPassed(req[r])
C10_Witness ==
    \E r \in Reqs : /\ req[r].auth /\ Answered(req[r]) /\ req[r].op = "update"
                    /\ req[r].calls = <<"checkConnection">> /\ req[r].failedAt = 1
                    /\ req[r].resp.status = 500 /\ store # <<>>

====
